---- MODULE Spec2Model ----
(***************************************************************************)
(* Model of faxitron/ham.py: the Hamamatsu sensor driver.                  *)
(*                                                                         *)
(*   Spec        the streaming capture engine, CapImgN: run's main loop,   *)
(*               the read-completion callback async_cb and the frame       *)
(*               state machine handle_buff / process_end;                  *)
(*   SpecDecode  the frame decoder, decode;                                *)
(*   SpecCmd     the command channel, cmd1 / bulk1;                        *)
(*   SpecExp     the exposure commands, set_exp / get_exp;                 *)
(*   SpecLive    the capture engine on a well-formed stream, with the      *)
(*               fairness of the loop and of read completion;              *)
(*   SpecHam     the session object, Hamamatsu, and ham_init.              *)
(*                                                                         *)
(* Byte strings are sequences of integers 0..255.  Python's None is the    *)
(* empty tuple and a bytearray b is the one-element tuple <<b>>, so that    *)
(* rawbuff = None and rawbuff = bytearray() are different values.          *)
(***************************************************************************)
EXTENDS Integers, Sequences, FiniteSets, TLC

VARIABLES
    pc,             \* position of CapImgN.run
    n,              \* self.n, the target completion count
    state,          \* self.state: MSG_END (waiting for begin) or MSG_BEGIN (in frame)
    urb_remain,     \* self.urb_remain
    rawbuff,        \* self.rawbuff: None or <<bytes>>
    completions,    \* self.completions: sequence of <<counter, rawimg, average>>
    running,        \* self.running
    trans_l,        \* len(self.trans_l): transfers allocated by alloc_urb
    submitted,      \* transfers of trans_l submitted and not yet completed
    now,            \* time.time() - tstart, in milliseconds
    ncb,            \* read completions delivered so far
    yielded,        \* the sequence run has yielded to its caller
    cb_err,         \* the exception an async_cb has raised, named with its line ("none" so far)
    last,           \* the last step: the operation, its buffer and the state it found
    dec,            \* decode: its arguments and its result
    chan            \* command channel: the call, the bulk writes made, the outcome

vars == <<pc, n, state, urb_remain, rawbuff, completions, running, trans_l,
          submitted, now, ncb, yielded, cb_err, last, dec, chan>>

capvars == <<pc, n, state, urb_remain, rawbuff, completions, running, trans_l,
             submitted, now, ncb, yielded, cb_err, last>>

----------------------------------------------------------------------------
(* Program constants *)

MSG_ABORTED == 32769
MSG_BEGIN == 32770
MSG_END == 32772
MSG_WTF == 32773
MSG_END_SZ == 6
STATUS_OK == 3
STATUS_NOK == 7
SYNC_MIN == 16384
urb_max == 31
timeout_ms == 2500
depth == 2

(* Bounds of the model *)

width == 1              \* geometry of the capture session
height == 1
MaxN == 2               \* largest target count n
MaxCallbacks == 7       \* read completions delivered in one run
Slack == 2              \* bytes accumulated beyond image + footer
TickMs == 500           \* granularity of the clock

imgsz == width * height * depth
imgx_sz == imgsz + 2
MaxRaw == imgx_sz + Slack

----------------------------------------------------------------------------
(* Byte strings *)

None == <<>>
Some(b) == <<b>>

Min(a, b) == IF a < b THEN a ELSE b

\* Python slices b[0:k] and b[k:]
Take(b, k) == SubSeq(b, 1, Min(k, Len(b)))
Drop(b, k) == SubSeq(b, Min(k, Len(b)) + 1, Len(b))

\* struct.unpack('<H', b)[0] for a b of exactly 2 bytes
unpack16_le(b) == b[1] + 256 * b[2]

\* Buffers the device can complete a read with
PIX_A == <<52, 18, 7, 0>>
PIX_B == <<255, 63>>
BEGIN_BUF == <<2, 128>>
END_OK_7 == <<4, 128, 3, 0, 7, 0>>
END_OK_1 == <<4, 128, 3, 0, 1, 0, 9, 9>>
END_NOK == <<4, 128, 7, 0, 2, 0>>
END_BAD == <<4, 128, 5, 0, 2, 0>>
END_SHORT == <<4, 128, 3, 0>>
WTF_BUF == <<5, 128>>
ABORTED_BUF == <<1, 128>>
MARK_4000 == <<0, 64>>

Buffers ==
    { <<>>, <<9>>, PIX_A, PIX_B, BEGIN_BUF, <<2, 128, 9, 0>>,
      END_OK_7, END_OK_1, END_NOK, END_BAD, END_SHORT,
      WTF_BUF, ABORTED_BUF, MARK_4000 }

----------------------------------------------------------------------------
(* The frame state machine *)

\* is_sync: [err, sync]; unpack16_le of a 1-byte slice raises struct.error
is_sync(buff) ==
    IF Len(buff) = 0 THEN [err |-> "none", sync |-> 0]
    ELSE IF Len(Take(buff, 2)) # 2 THEN [err |-> "struct.error@235", sync |-> 0]
    ELSE LET pack2u == unpack16_le(Take(buff, 2))
         IN  IF pack2u >= SYNC_MIN THEN [err |-> "none", sync |-> pack2u]
             ELSE [err |-> "none", sync |-> 0]

\* Mutant: any status other than STATUS_NOK is accepted
end_status_lenient(status) == IF status = STATUS_NOK THEN "discard" ELSE "accept"

\* process_end, lines 399-402: the status check on a parsed END trailer
end_status(status) ==
    IF status = STATUS_NOK THEN "discard"
    ELSE IF status # STATUS_OK THEN "AssertionError@402"
    ELSE "accept"

\* Mutant: the END buffer is not cut to MSG_END_SZ before its trailer is unpacked
end_trailer_uncut(endbuff) == Drop(endbuff, 2)

\* process_end, lines 394 and 397: the bytes handed to struct.unpack('<HH', ...)
end_trailer(endbuff) == Drop(Take(endbuff, MSG_END_SZ), 2)

\* Mutant: the footer is the last 2 bytes of the slice, buff[-2:]
footer_last2(buff) == IF Len(buff) < 2 THEN buff ELSE Drop(buff, Len(buff) - 2)

\* process_end, line 369: footer = buff[self.imgsz:]
footer_of(buff) == Drop(buff, imgsz)

\* Mutant: the completion is put at the head of the list
record_completion_first(comps, c) == <<c>> \o comps

\* process_end, line 406: self.completions.append(...)
record_completion(comps, c) == Append(comps, c)

\* process_end: rb is the bytes of self.rawbuff.  Returns the new self.rawbuff bytes,
\* the new completion list and the exception raised ("none" when it returns).
process_end(rb, comps, endbuff) ==
    LET buff == Take(rb, imgx_sz)
        rest == Drop(rb, imgx_sz)
        rawimg == Take(buff, imgsz)
        footer == footer_of(buff)
        trailer == end_trailer(endbuff)
    IN  IF Len(footer) # 2
        THEN [rawbuff |-> rest, completions |-> comps, err |-> "struct.error@383"]
        ELSE IF unpack16_le(Take(endbuff, 2)) # MSG_END
        THEN [rawbuff |-> rest, completions |-> comps, err |-> "AssertionError@396"]
        ELSE IF Len(trailer) # 4
        THEN [rawbuff |-> rest, completions |-> comps, err |-> "struct.error@397"]
        ELSE LET status == unpack16_le(SubSeq(trailer, 1, 2))
                 counter == unpack16_le(SubSeq(trailer, 3, 4))
                 verdict == end_status(status)
             IN  IF verdict = "discard"
                 THEN [rawbuff |-> rest, completions |-> comps, err |-> "none"]
                 ELSE IF verdict # "accept"
                 THEN [rawbuff |-> rest, completions |-> comps, err |-> verdict]
                 ELSE IF Len(rawimg) # imgsz
                 THEN [rawbuff |-> rest, completions |-> comps, err |-> "AssertionError@404"]
                 ELSE [rawbuff |-> rest,
                       completions |-> record_completion(comps,
                                           <<counter, rawimg, unpack16_le(footer)>>),
                       err |-> "none"]

\* Mutant: a second MSG_BEGIN inside a frame is taken for the end of the frame
in_frame_marker_any_delim(sync) == sync = MSG_END \/ sync = MSG_BEGIN

\* handle_buff, line 352: the marker check in state MSG_BEGIN
in_frame_marker_ok(sync) == sync = MSG_END

\* Mutant: MSG_WTF resets the state but keeps the accumulated bytes
on_wtf_keep(st, rb) == [state |-> MSG_END, rawbuff |-> rb]

\* handle_buff, lines 325-329: a MSG_WTF buffer resets the state machine
on_wtf(st, rb) == [state |-> MSG_END, rawbuff |-> None]

\* Mutant: only buffers without a marker are ignored while waiting for begin
waiting_stray_nonmarker(sync) == sync = 0

\* handle_buff, lines 333-337: what is ignored while waiting for begin
waiting_stray(sync) == sync = 0 \/ sync = MSG_END

\* handle_buff: st, rb, comps are self.state, self.rawbuff, self.completions.
handle_buff(st, rb, comps, buff) ==
    LET s == is_sync(buff)
        same == [state |-> st, rawbuff |-> rb, completions |-> comps, err |-> "none"]
    IN  IF s.err # "none" THEN [same EXCEPT !.err = s.err]
        ELSE IF s.sync = MSG_WTF
        THEN [same EXCEPT !.state = on_wtf(st, rb).state, !.rawbuff = on_wtf(st, rb).rawbuff]
        ELSE IF st = MSG_END
        THEN IF waiting_stray(s.sync) THEN same
             ELSE IF s.sync # MSG_BEGIN THEN [same EXCEPT !.err = "AssertionError@340"]
             ELSE [same EXCEPT !.state = MSG_BEGIN, !.rawbuff = Some(<<>>)]
        ELSE IF st = MSG_BEGIN
        THEN IF s.sync # 0
             THEN IF ~in_frame_marker_ok(s.sync) THEN [same EXCEPT !.err = "AssertionError@352"]
                  ELSE LET pe == process_end(rb[1], comps, buff)
                       IN  IF pe.err # "none"
                           THEN [state |-> st, rawbuff |-> Some(pe.rawbuff),
                                 completions |-> pe.completions, err |-> pe.err]
                           ELSE [state |-> MSG_END, rawbuff |-> None,
                                 completions |-> pe.completions, err |-> "none"]
             ELSE [same EXCEPT !.rawbuff = Some(rb[1] \o buff)]
        ELSE [same EXCEPT !.err = "AssertionError@360"]

----------------------------------------------------------------------------
(* The capture engine *)

\* async_cb, lines 414-420: whether a running engine resubmits the transfer
resubmits(st, ur) == (st = MSG_END /\ ur = 1) \/ st = MSG_BEGIN

\* async_cb, lines 423-425: self.running after the callback raised
on_raise_running == FALSE

\* Mutant: the loop stops while one read is still counted
loop_cond_early == urb_remain > 1

\* run, line 447: the loop condition
loop_cond == urb_remain # 0

\* run, line 449: elapsed = int(time.time() - tstart) * 1000
elapsed == (now \div 1000) * 1000

\* Mutant: the pool is grown by urb_max whatever is already counted
alloc_count_full == urb_max

\* run, line 454: the argument of alloc_urb
alloc_count == urb_max - urb_remain

\* Mutant: the loop decides from the count alone whether the engine runs
keep_running_recount == Len(completions) < n

\* run, line 448
keep_running == running /\ Len(completions) < n

NoStep == [op |-> "init", buff |-> <<>>, state |-> MSG_END, rawlen |-> -1, running |-> TRUE]

NoImage == [size |-> <<0, 0>>, px |-> <<>>]

DecIdle == [width |-> 0, height |-> 0, buff |-> <<>>, pcd |-> "idle", err |-> "none",
            img |-> NoImage]
ChanIdle == [opcode |-> 0, payload |-> <<>>, read |-> TRUE, pcc |-> "idle", err |-> "none",
             written |-> <<>>, reply |-> <<>>]

\* CapImgN.__init__
Init ==
    /\ pc = "start"
    /\ n \in 0..MaxN
    /\ state = MSG_END
    /\ urb_remain = 0
    /\ rawbuff = None
    /\ completions = <<>>
    /\ running = TRUE
    /\ trans_l = 0
    /\ submitted = 0
    /\ now = 0
    /\ ncb = 0
    /\ yielded = <<>>
    /\ cb_err = "none"
    /\ last = NoStep
    /\ dec = DecIdle
    /\ chan = ChanIdle

\* run, lines 438-443: tstart, trans_l = [], urb_remain = 0, alloc_urb(1)
RunStart ==
    /\ pc = "start"
    /\ pc' = "loop"
    /\ urb_remain' = 1
    /\ trans_l' = 1
    /\ submitted' = 1
    /\ last' = [NoStep EXCEPT !.op = "run_start"]
    /\ UNCHANGED <<n, state, rawbuff, completions, running, now, ncb, yielded, cb_err, dec, chan>>

\* run, lines 447-456: one iteration of the loop up to the poll call
RunIter ==
    /\ pc = "loop"
    /\ loop_cond
    /\ elapsed < timeout_ms
    /\ running' = keep_running
    /\ LET more == IF keep_running /\ state = MSG_BEGIN THEN alloc_count ELSE 0
       IN  /\ urb_remain' = urb_remain + more
           /\ trans_l' = trans_l + more
           /\ submitted' = submitted + more
    /\ pc' = "poll"
    /\ last' = [NoStep EXCEPT !.op = "run_iter"]
    /\ UNCHANGED <<n, state, rawbuff, completions, now, ncb, yielded, cb_err, dec, chan>>

\* run, lines 448-451 and 464-465: the deadline has passed; raise, then finally
RunTimeout ==
    /\ pc = "loop"
    /\ loop_cond
    /\ elapsed >= timeout_ms
    /\ pc' = "timeout"
    /\ running' = FALSE
    /\ last' = [NoStep EXCEPT !.op = "run_timeout"]
    /\ UNCHANGED <<n, state, urb_remain, rawbuff, completions, trans_l, submitted,
                   now, ncb, yielded, cb_err, dec, chan>>

\* run, lines 458-465: the loop ends, transfers are closed, completions are yielded
RunDone ==
    /\ pc = "loop"
    /\ ~loop_cond
    /\ pc' = "done"
    /\ yielded' = completions
    /\ running' = FALSE
    /\ last' = [NoStep EXCEPT !.op = "run_done"]
    /\ UNCHANGED <<n, state, urb_remain, rawbuff, completions, trans_l, submitted,
                   now, ncb, cb_err, dec, chan>>

\* handleEventsTimeout returns; wall-clock time may have advanced
PollReturn ==
    /\ pc = "poll"
    /\ pc' = "loop"
    /\ \E d \in {0, TickMs} : now' = now + d
    /\ last' = [NoStep EXCEPT !.op = "poll_return"]
    /\ UNCHANGED <<n, state, urb_remain, rawbuff, completions, running, trans_l,
                   submitted, ncb, yielded, cb_err, dec, chan>>

\* async_cb, called from handleEventsTimeout when a submitted transfer completes with
\* buff.  An exception leaving the callback either unwinds handleEventsTimeout and
\* run, whose finally clause clears running (prop), or is dropped by the transport
\* and the poll goes on.
async_cb(buff, prop) ==
    /\ pc = "poll"
    /\ submitted > 0
    /\ LET hb == IF running THEN handle_buff(state, rawbuff, completions, buff)
                 ELSE [state |-> state, rawbuff |-> rawbuff,
                       completions |-> completions, err |-> "none"]
           raised == hb.err # "none"
           again == ~raised /\ running /\ resubmits(hb.state, urb_remain)
       IN  /\ hb.rawbuff # None => Len(hb.rawbuff[1]) <= MaxRaw
           /\ state' = hb.state
           /\ rawbuff' = hb.rawbuff
           /\ completions' = hb.completions
           /\ cb_err' = IF raised THEN hb.err ELSE cb_err
           /\ urb_remain' = IF ~raised /\ ~running THEN urb_remain - 1 ELSE urb_remain
           /\ submitted' = IF again THEN submitted ELSE submitted - 1
           /\ running' = IF raised THEN (on_raise_running /\ ~prop) ELSE running
           /\ pc' = IF raised /\ prop THEN "raised" ELSE "poll"
    /\ last' = [op |-> "async_cb", buff |-> buff, state |-> state,
                rawlen |-> IF rawbuff = None THEN -1 ELSE Len(rawbuff[1]),
                running |-> running]
    /\ UNCHANGED <<n, trans_l, now, yielded, dec, chan>>

\* One of the MaxCallbacks read completions of a run
AsyncCb(buff, prop) ==
    /\ ncb < MaxCallbacks
    /\ async_cb(buff, prop)
    /\ ncb' = ncb + 1

Callback == \E buff \in Buffers, prop \in BOOLEAN : AsyncCb(buff, prop)

Next == RunStart \/ RunIter \/ RunTimeout \/ RunDone \/ PollReturn \/ Callback

Spec == Init /\ [][Next]_vars

----------------------------------------------------------------------------
(* Properties of the capture engine, checked under Spec *)

\* The step just taken was an async_cb that called handle_buff on buff
Handled(buff) ==
    /\ ncb' = ncb + 1
    /\ last'.op = "async_cb"
    /\ last'.buff = buff
    /\ running

Sync(buff) == is_sync(buff).sync

IsMarker(buff) == Len(buff) >= 2 /\ unpack16_le(Take(buff, 2)) >= SYNC_MIN

\* status field of an END buffer
EndStatus(buff) == unpack16_le(SubSeq(buff, 3, 4))

RunEnded == pc \in {"done", "timeout", "raised"}

Drained == urb_remain = 0 /\ submitted = 0

\* C1: when run finishes without raising, it has yielded exactly n completions.
C1_YieldsExactlyN == pc = "done" => Len(yielded) = n

\* C2: when run finishes without raising, urb_remain is 0 and no submitted read is
\* still in flight.
C2_DrainedOnReturn == pc = "done" => Drained

C2_Witness ==
    /\ pc = "done"
    /\ Len(yielded) >= 1
    /\ ncb >= 4
    /\ trans_l >= 1

\* C3: when run raises its timeout error with fewer than n frames accepted, every
\* outstanding read has already been drained: urb_remain is 0 and none is in flight.
C3_TimeoutDrained == (pc = "timeout" /\ Len(completions) < n) => Drained

\* C4: after a callback raised a fatal protocol error (an unexpected marker in a frame,
\* line 352, or a bad END status, line 402), run does not end (by that error or by any
\* other exit) before the outstanding reads are drained to 0.
C4_FatalErrorDrained ==
    (RunEnded /\ cb_err \in {"AssertionError@352", "AssertionError@402"}) => Drained

\* C5: in state MSG_BEGIN an END buffer with status 7 raises nothing, leaves the
\* completion list unchanged, returns the state to MSG_END and leaves the engine
\* running, whatever the length accumulated.
C5_NokDiscardsAnyLength ==
    [][\A b \in Buffers :
        (Handled(b) /\ state = MSG_BEGIN /\ Sync(b) = MSG_END /\ Len(b) >= MSG_END_SZ
            /\ EndStatus(b) = STATUS_NOK)
        => (cb_err' = "none" /\ completions' = completions /\ state' = MSG_END
            /\ running')]_vars

\* C6: in state MSG_BEGIN with at least imgx_sz bytes accumulated, an END buffer with
\* status 3 (and its counter field, 6 bytes or more) appends exactly one completion:
\* the little-endian word at bytes 4..5 of the END buffer, the first imgsz bytes
\* accumulated and the little-endian word of the next 2 bytes; END bytes past the
\* first 6 have no effect, nothing is raised and the state returns to MSG_END.
C6_OkAppendsCompletion ==
    [][\A b \in Buffers :
        (Handled(b) /\ state = MSG_BEGIN /\ Len(rawbuff[1]) >= imgx_sz
            /\ Sync(b) = MSG_END /\ Len(b) >= MSG_END_SZ /\ EndStatus(b) = STATUS_OK)
        => /\ completions' = Append(completions,
                <<b[5] + 256 * b[6],
                  SubSeq(rawbuff[1], 1, imgsz),
                  rawbuff[1][imgsz + 1] + 256 * rawbuff[1][imgsz + 2]>>)
           /\ cb_err' = "none"
           /\ state' = MSG_END]_vars

C6_Witness ==
    /\ last.op = "async_cb"
    /\ last.running
    /\ last.state = MSG_BEGIN
    /\ last.rawlen > imgx_sz
    /\ last.buff = END_OK_1
    /\ Len(completions) >= 1
    /\ completions[Len(completions)][1] = 1
    /\ state = MSG_END

\* C7: a buffer led by MSG_WTF, in either state, raises nothing, appends no completion,
\* discards the accumulation buffer and leaves the state MSG_END; a MSG_BEGIN handled
\* in state MSG_END starts a frame with an empty accumulation buffer.
C7_WtfResets ==
    [][\A b \in Buffers :
        /\ (Handled(b) /\ Sync(b) = MSG_WTF)
            => (cb_err' = "none" /\ completions' = completions /\ rawbuff' = None
                /\ state' = MSG_END)
        /\ (Handled(b) /\ state = MSG_END /\ Sync(b) = MSG_BEGIN)
            => (cb_err' = "none" /\ completions' = completions
                /\ rawbuff' = Some(<<>>) /\ state' = MSG_BEGIN)]_vars

C7_Witness ==
    /\ last.op = "async_cb"
    /\ last.running
    /\ last.state = MSG_BEGIN
    /\ last.rawlen > 0
    /\ last.buff = WTF_BUF
    /\ state = MSG_END
    /\ rawbuff = None
    /\ cb_err = "none"

\* C8: in state MSG_BEGIN a buffer led by a marker (>= 0x4000) other than MSG_END and
\* MSG_WTF fails the marker assertion of line 352: the callback raises, no completion
\* is appended and running becomes false.
C8_UnexpectedMarkerFatal ==
    [][\A b \in Buffers :
        (Handled(b) /\ state = MSG_BEGIN /\ IsMarker(b) /\ Sync(b) \notin {MSG_END, MSG_WTF})
        => (cb_err' = "AssertionError@352" /\ completions' = completions /\ ~running')]_vars

C8_Witness ==
    /\ last.op = "async_cb"
    /\ last.running
    /\ last.state = MSG_BEGIN
    /\ last.buff \in {BEGIN_BUF, ABORTED_BUF}
    /\ cb_err = "AssertionError@352"
    /\ ~running

\* counter field of an END buffer
EndCounter(buff) == unpack16_le(SubSeq(buff, 5, 6))

\* C11: when a frame is finalized on END, the bytes accumulated beyond the first
\* imgx_sz are retained as the accumulation buffer for the next frame.
C11_LeftoverRetained ==
    [][\A b \in Buffers :
        (Handled(b) /\ state = MSG_BEGIN /\ Len(rawbuff[1]) > imgx_sz
            /\ Sync(b) = MSG_END /\ Len(b) >= MSG_END_SZ
            /\ EndStatus(b) \in {STATUS_OK, STATUS_NOK})
        => rawbuff' = Some(Drop(rawbuff[1], imgx_sz))]_vars

\* C12: whenever the state machine is in MSG_END (waiting for begin), at most 1 read
\* is outstanding on the streaming endpoint.
C12_OneReadWhileWaiting == state = MSG_END => submitted <= 1

\* C13: neither urb_remain nor the number of reads in flight exceeds urb_max (31), and
\* transfers beyond the first are allocated only in state MSG_BEGIN with the engine
\* running.
C13_PoolBounded ==
    /\ [](urb_remain <= urb_max /\ submitted <= urb_max)
    /\ [][(trans_l' > trans_l /\ trans_l >= 1)
          => (state = MSG_BEGIN /\ running /\ running')]_vars

C13_Witness ==
    /\ pc = "poll"
    /\ state = MSG_BEGIN
    /\ running
    /\ trans_l = urb_max
    /\ urb_remain = urb_max
    /\ submitted = urb_max

\* C14: completions are yielded in the order their END buffers were handled: each
\* accepted END appends one entry, with its counter, after the entries already there,
\* no step reorders or removes entries, and run yields the list front to back,
\* whatever the counters are.
C14_CompletionOrder ==
    /\ [](pc = "done" => yielded = completions)
    /\ [][/\ Len(completions') >= Len(completions)
          /\ SubSeq(completions', 1, Len(completions)) = completions
          /\ completions' # completions
             => /\ Len(completions') = Len(completions) + 1
                /\ last'.op = "async_cb"
                /\ Sync(last'.buff) = MSG_END
                /\ completions'[Len(completions')][1] = EndCounter(last'.buff)]_vars

C14_Witness ==
    /\ pc = "done"
    /\ Len(yielded) = 2
    /\ yielded[1][1] = 7
    /\ yielded[2][1] = 1

\* C15: in state MSG_BEGIN an END buffer whose status is neither 3 nor 7 is fatal: the
\* callback raises, no completion is appended and running becomes false.
C15_BadStatusFatal ==
    [][\A b \in Buffers :
        (Handled(b) /\ state = MSG_BEGIN /\ Sync(b) = MSG_END /\ Len(b) >= MSG_END_SZ
            /\ EndStatus(b) \notin {STATUS_OK, STATUS_NOK})
        => (cb_err' # "none" /\ completions' = completions /\ ~running')]_vars

C15_Witness ==
    /\ last.op = "async_cb"
    /\ last.running
    /\ last.state = MSG_BEGIN
    /\ last.rawlen >= imgx_sz
    /\ last.buff = END_BAD
    /\ cb_err = "AssertionError@402"
    /\ ~running

\* C16: every entry of the completion list holds a raw image of exactly imgsz bytes,
\* and a buffer handled with fewer than imgx_sz bytes accumulated appends nothing.
C16_ImageSizeExact ==
    /\ [](\A i \in 1..Len(completions) : Len(completions[i][2]) = imgsz)
    /\ [][\A b \in Buffers :
            (Handled(b) /\ state = MSG_BEGIN /\ Len(rawbuff[1]) < imgx_sz)
            => completions' = completions]_vars

C16_Witness ==
    /\ last.op = "async_cb"
    /\ last.running
    /\ last.state = MSG_BEGIN
    /\ last.rawlen = imgsz
    /\ last.buff = END_OK_7
    /\ cb_err = "struct.error@383"
    /\ completions = <<>>

\* C18: urb_remain always equals the number of reads in flight.
C18_CountMatchesInFlight == urb_remain = submitted

\* C20: run raises its timeout error only if fewer than n frames have been accepted.
C20_TimeoutOnlyIfShort == (pc = "timeout" /\ n >= 1) => Len(completions) < n

\* C21: in state MSG_END (waiting for begin) a buffer that is empty, or led by a word
\* below 0x4000, or led by MSG_END raises nothing and leaves the state, the accumulation
\* buffer and the completion list as they were; a buffer led by MSG_BEGIN moves the
\* state to MSG_BEGIN with an empty accumulation buffer, whatever follows the marker,
\* and leaves the completion list as it was.
C21_WaitingBegin ==
    [][\A b \in Buffers :
        /\ (Handled(b) /\ state = MSG_END
                /\ (b = <<>> \/ (Len(b) >= 2 /\ ~IsMarker(b)) \/ Sync(b) = MSG_END))
            => (cb_err' = "none" /\ running' /\ state' = state /\ rawbuff' = rawbuff
                /\ completions' = completions)
        /\ (Handled(b) /\ state = MSG_END /\ Len(b) >= 2
                /\ unpack16_le(Take(b, 2)) = MSG_BEGIN)
            => (cb_err' = "none" /\ running' /\ state' = MSG_BEGIN
                /\ rawbuff' = Some(<<>>) /\ completions' = completions)]_vars

\* A stray END was ignored while waiting for the begin of the second frame
C21_Witness ==
    /\ last.op = "async_cb"
    /\ last.running
    /\ last.state = MSG_END
    /\ Len(last.buff) >= MSG_END_SZ
    /\ Sync(last.buff) = MSG_END
    /\ state = MSG_END
    /\ rawbuff = None
    /\ Len(completions) = 1
    /\ cb_err = "none"
    /\ running

\* C22: once running is false it never becomes true again, no transfer is allocated,
\* submitted or resubmitted, and every later read completion leaves the state, the
\* accumulation buffer and the completion list alone, raises nothing, and takes exactly
\* one off urb_remain.
C22_StoppingIsFinal ==
    [][~running
        => /\ ~running'
           /\ trans_l' = trans_l
           /\ submitted' <= submitted
           /\ ncb' = ncb + 1
              => /\ last'.op = "async_cb"
                 /\ state' = state
                 /\ rawbuff' = rawbuff
                 /\ completions' = completions
                 /\ cb_err' = cb_err
                 /\ pc' = pc
                 /\ submitted' = submitted - 1
                 /\ urb_remain' = urb_remain - 1]_vars

\* A read carrying a BEGIN buffer completed after the target count had stopped the
\* engine with the whole pool in flight
C22_Witness ==
    /\ last.op = "async_cb"
    /\ ~last.running
    /\ last.state = MSG_END
    /\ last.buff = BEGIN_BUF
    /\ state = MSG_END
    /\ rawbuff = None
    /\ Len(completions) = 1
    /\ cb_err = "none"
    /\ trans_l = urb_max
    /\ ~running

----------------------------------------------------------------------------
(* Progress of a capture on a well-formed stream *)

\* The buffers of one well-formed OK frame: BEGIN, the pixel data and footer, END with
\* status 3
FrameBufs == <<BEGIN_BUF, PIX_A, END_OK_7>>

\* Length of the stream of n frames
LiveLen == n * Len(FrameBufs)

\* The buffer the next completing read carries: the stream in order, then nothing
LiveBuff == IF ncb < LiveLen THEN FrameBufs[(ncb % Len(FrameBufs)) + 1] ELSE <<>>

\* handleEventsTimeout returns well before the deadline
PollLive ==
    /\ pc = "poll"
    /\ pc' = "loop"
    /\ last' = [NoStep EXCEPT !.op = "poll_return"]
    /\ UNCHANGED <<n, state, urb_remain, rawbuff, completions, running, trans_l,
                   submitted, now, ncb, yielded, cb_err, dec, chan>>

\* A read in flight completes with the next buffer of the stream
CbLive ==
    /\ async_cb(LiveBuff, TRUE)
    /\ ncb' = IF ncb < LiveLen THEN ncb + 1 ELSE ncb

NextLive == RunStart \/ RunIter \/ RunDone \/ PollLive \/ CbLive

\* The main loop keeps iterating, and a read in flight completes eventually however
\* often the poll call returns first
SpecLive ==
    /\ Init
    /\ [][NextLive]_vars
    /\ WF_vars(RunStart \/ RunIter \/ RunDone \/ PollLive)
    /\ SF_vars(CbLive)

\* C19: when the device delivers n well-formed OK frames and every read in flight
\* eventually completes, run eventually reaches its normal return, for every
\* interleaving of loop iterations and read completions.
C19_EventuallyReturns == <>(pc = "done")

----------------------------------------------------------------------------
(* The frame decoder *)

MaxDim == 2             \* largest width and height decoded
WHITE == 255            \* "White" in mode "I"

\* Buffers decoded: byte i is (a * i + c) mod 256, and the buffer <<0x34, 0x12, 0, 0>>;
\* of the length asked for, one byte longer and one byte shorter
DecPattern(k, a, c) == [i \in 1..k |-> (a * (i - 1) + c) % 256]

DecBuffers(k) ==
    {DecPattern(k, a, c) : a \in {0, 1, 3, 17}, c \in {0, 18, 52, 255}}
    \cup {DecPattern(k + 1, 1, 0), DecPattern(k - 1, 1, 0)}
    \cup (IF k = 4 THEN {<<52, 18, 0, 0>>} ELSE {})

\* Image.new(mode, size, color): size is (columns, rows)
Image_new(size, fill) ==
    [size |-> size, px |-> [xy \in (0..size[1] - 1) \X (0..size[2] - 1) |-> fill]]

\* img.putpixel(xy, v): IndexError outside the image
putpixel(img, xy, v) ==
    IF xy[1] >= img.size[1] \/ xy[2] >= img.size[2]
    THEN [err |-> "IndexError@490", img |-> img]
    ELSE [err |-> "none", img |-> [img EXCEPT !.px[xy] = v]]

\* decode, line 483: the size handed to Image.new
decode_size(w, h) == <<h, w>>

\* decode, lines 485-490: the loops, pixel k = y * w + x, y outer
RECURSIVE decode_loop(_, _, _, _, _)
decode_loop(img, buff, w, h, k) ==
    IF k >= w * h THEN [err |-> "none", img |-> img]
    ELSE LET y == k \div w
             x == k % w
             line0 == SubSeq(buff, y * w * depth + 1, (y + 1) * w * depth)
             b0 == line0[2 * x + 1]
             b1 == line0[2 * x + 2]
             r == putpixel(img, <<x, y>>, b1 * 256 + b0)
         IN  IF r.err # "none" THEN [err |-> r.err, img |-> NoImage]
             ELSE decode_loop(r.img, buff, w, h, k + 1)

decode(buff, w, h) ==
    IF Len(buff) # w * h * depth THEN [err |-> "AssertionError@480", img |-> NoImage]
    ELSE decode_loop(Image_new(decode_size(w, h), WHITE), buff, w, h, 0)

DecInputs ==
    UNION { { [width |-> wh[1], height |-> wh[2], buff |-> b, pcd |-> "call",
               err |-> "none", img |-> NoImage] :
              b \in DecBuffers(wh[1] * wh[2] * depth) } :
            wh \in (1..MaxDim) \X (1..MaxDim) }

CapIdle ==
    /\ pc = "start"
    /\ n = 0
    /\ state = MSG_END
    /\ urb_remain = 0
    /\ rawbuff = None
    /\ completions = <<>>
    /\ running = TRUE
    /\ trans_l = 0
    /\ submitted = 0
    /\ now = 0
    /\ ncb = 0
    /\ yielded = <<>>
    /\ cb_err = "none"
    /\ last = NoStep

InitDecode ==
    /\ CapIdle
    /\ chan = ChanIdle
    /\ dec \in DecInputs

Decode ==
    /\ dec.pcd = "call"
    /\ LET r == decode(dec.buff, dec.width, dec.height)
       IN  dec' = [dec EXCEPT !.pcd = "done", !.err = r.err, !.img = r.img]
    /\ UNCHANGED <<capvars, chan>>

NextDecode == Decode

SpecDecode == InitDecode /\ [][NextDecode]_vars

\* C9: for every width >= 1, height >= 1 and buffer of width*height*2 bytes, decode
\* returns a grid of width columns by height rows whose pixel (x, y) is
\* buff[2*(y*width+x)] + 256 * buff[2*(y*width+x)+1] (0-based offsets).
C9_DecodeGrid ==
    (dec.pcd = "done" /\ Len(dec.buff) = dec.width * dec.height * depth)
    => /\ dec.err = "none"
       /\ dec.img.size = <<dec.width, dec.height>>
       /\ \A x \in 0..dec.width - 1, y \in 0..dec.height - 1 :
            dec.img.px[<<x, y>>] = dec.buff[2 * (y * dec.width + x) + 1]
                                   + 256 * dec.buff[2 * (y * dec.width + x) + 2]

----------------------------------------------------------------------------
(* The command channel *)

EP_CMD_OUT == 1
EP_CMD_IN == 131
\* Opcodes tried; integers stop at 2^31 - 1 here
Opcodes == {0, 1, 2, 4, 9, 14, 15, 31, 32, 45, 255, 256, 65536, 16777216, 2147483647}

Payloads == {<<>>, <<1>>, <<0, 2>>, <<0, 0, 0, 2>>, <<0, 0, 7, 208>>}

Replies == {<<1>>, <<0>>}

U32 == 0..2147483647

\* 4 bytes, big-endian
be32(v) == <<v \div 16777216, (v \div 65536) % 256, (v \div 256) % 256, v % 256>>

unpack32ub(b) == ((b[1] * 256 + b[2]) * 256 + b[3]) * 256 + b[4]

\* struct.pack(">II", *args): two items are packed, each an integer of 32 bits
struct_pack_II(args) ==
    IF Len(args) # 2 THEN [err |-> "struct.error@76", bytes |-> <<>>]
    ELSE IF args[1] \notin U32 \/ args[2] \notin U32
    THEN [err |-> "struct.error@76", bytes |-> <<>>]
    ELSE [err |-> "none", bytes |-> be32(args[1]) \o be32(args[2])]

\* cmd1, line 76: the arguments that follow the format: one, the tuple
cmd1_args(opcode, payload) == << <<opcode, Len(payload)>> >>

\* cmd1 and bulk1 (lines 60-77) on a channel io = [written, calls]: pack the header,
\* write header + payload to endpoint 0x01, then read the reply rep from endpoint 0x83
\* when read is set
cmd1(io, opcode, payload, read, rep) ==
    LET pk == struct_pack_II(cmd1_args(opcode, payload))
        called == Append(io.calls, opcode)
    IN  IF pk.err # "none"
        THEN [err |-> pk.err, written |-> io.written, calls |-> called, reply |-> <<>>]
        ELSE [err |-> "none",
              written |-> Append(io.written, [ep |-> EP_CMD_OUT,
                                              data |-> pk.bytes \o payload]),
              calls |-> called,
              reply |-> IF read THEN rep ELSE <<>>]

InitCmd ==
    /\ CapIdle
    /\ dec = DecIdle
    /\ chan \in { [opcode |-> o, payload |-> p, read |-> r, pcc |-> "call", err |-> "none",
                   written |-> <<>>, reply |-> <<>>] :
                  o \in Opcodes, p \in Payloads, r \in BOOLEAN }

\* A call of cmd1
Cmd1 ==
    /\ chan.pcc = "call"
    /\ \E rep \in Replies :
          LET c == cmd1([written |-> chan.written, calls |-> <<>>],
                        chan.opcode, chan.payload, chan.read, rep)
          IN  chan' = [chan EXCEPT
                  !.pcc = IF c.err # "none" THEN "raised" ELSE "returned",
                  !.err = c.err,
                  !.written = c.written,
                  !.reply = c.reply]
    /\ UNCHANGED <<capvars, dec>>

NextCmd == Cmd1

SpecCmd == InitCmd /\ [][NextCmd]_vars

\* C10: cmd1 writes to the command-write endpoint exactly one message: the opcode as
\* big-endian 32-bit, the payload length as big-endian 32-bit, then the payload; the
\* first 8 bytes of the message parse back to the opcode and the payload length.
C10_Cmd1Frame ==
    chan.pcc \in {"returned", "raised"}
    => /\ chan.err = "none"
       /\ Len(chan.written) = 1
       /\ chan.written[1].ep = EP_CMD_OUT
       /\ chan.written[1].data = be32(chan.opcode) \o be32(Len(chan.payload)) \o chan.payload
       /\ unpack32ub(SubSeq(chan.written[1].data, 1, 4)) = chan.opcode
       /\ unpack32ub(SubSeq(chan.written[1].data, 5, 8)) = Len(chan.payload)

----------------------------------------------------------------------------
(* Exposure *)

\* Opcodes of the exposure commands
OP_GET_EXP == 31
OP_SET_EXP == 32
\* Accepted exposures, in ms
EXP_MIN == 30
EXP_MAX == 2000
\* The reply validate_cmd1 expects to the set command
REPLY_OK == <<1>>

\* Exposures tried lie within ExpSpan of either end of the accepted range
ExpSpan == 40

ExpInputs ==
    ((EXP_MIN - ExpSpan)..(EXP_MIN + ExpSpan))
        \cup ((EXP_MAX - ExpSpan)..(EXP_MAX + ExpSpan))
        \cup {250, 3000, 65536}

\* What the device may answer to the exposure get after exp_ms was sent: the value
\* itself, the value it pegs at, another value, or a reply that is not 4 bytes
ExpReplies(exp_ms) ==
    {be32(v) : v \in {exp_ms, EXP_MAX, 250} \cap U32} \cup {<<1>>}

\* Mutant: only the upper end of the range is asserted
exp_in_range_upper(exp_ms) == exp_ms <= EXP_MAX

\* set_exp, line 523
exp_in_range(exp_ms) == EXP_MIN <= exp_ms /\ exp_ms <= EXP_MAX

\* validate_cmd1 and validate_read (lines 51-58, 80-84)
validate_cmd1(io, opcode, expected, payload, rep) ==
    LET c == cmd1(io, opcode, payload, TRUE, rep)
    IN  IF c.err # "none" THEN c
        ELSE IF c.reply # expected THEN [c EXCEPT !.err = "Exception@58"]
        ELSE c

\* get_exp: the reply to opcode 0x1F, unpacked as one big-endian 32-bit value
get_exp(io, rep) ==
    LET c == cmd1(io, OP_GET_EXP, <<>>, TRUE, rep)
    IN  IF c.err # "none"
        THEN [err |-> c.err, written |-> c.written, calls |-> c.calls, val |-> -1]
        ELSE IF Len(c.reply) # 4
        THEN [err |-> "struct.error@507", written |-> c.written, calls |-> c.calls,
              val |-> -1]
        ELSE [err |-> "none", written |-> c.written, calls |-> c.calls,
              val |-> unpack32ub(c.reply)]

\* set_exp_setup: send the exposure, then read it back and compare
set_exp_setup(io, exp_ms, rep1, rep2) ==
    IF exp_ms \notin U32
    THEN [err |-> "struct.error@513", written |-> io.written, calls |-> io.calls,
          val |-> -1]
    ELSE LET v == validate_cmd1(io, OP_SET_EXP, REPLY_OK, be32(exp_ms), rep1)
         IN  IF v.err # "none"
             THEN [err |-> v.err, written |-> v.written, calls |-> v.calls, val |-> -1]
             ELSE LET g == get_exp([written |-> v.written, calls |-> v.calls], rep2)
                  IN  IF g.err = "none" /\ g.val # exp_ms
                      THEN [g EXCEPT !.err = "AssertionError@516"]
                      ELSE g

\* set_exp: the range assertion, then set_exp_setup
set_exp(io, exp_ms, rep1, rep2) ==
    IF ~exp_in_range(exp_ms)
    THEN [err |-> "AssertionError@523", written |-> io.written, calls |-> io.calls,
          val |-> -1]
    ELSE set_exp_setup(io, exp_ms, rep1, rep2)

ExpCall(exp_ms) ==
    [exp_ms |-> exp_ms, pce |-> "call", err |-> "none", written |-> <<>>, calls |-> <<>>,
     readback |-> -1]

InitExp ==
    /\ CapIdle
    /\ dec = DecIdle
    /\ chan \in {ExpCall(ms) : ms \in ExpInputs}

\* A call of set_exp(dev, exp_ms, width, height)
SetExp ==
    /\ chan.pce = "call"
    /\ \E rep1 \in Replies, rep2 \in ExpReplies(chan.exp_ms) :
          LET r == set_exp([written |-> chan.written, calls |-> chan.calls],
                           chan.exp_ms, rep1, rep2)
          IN  chan' = [chan EXCEPT
                  !.pce = IF r.err # "none" THEN "raised" ELSE "returned",
                  !.err = r.err,
                  !.written = r.written,
                  !.calls = r.calls,
                  !.readback = r.val]
    /\ UNCHANGED <<capvars, dec>>

NextExp == SetExp

SpecExp == InitExp /\ [][NextExp]_vars

\* C17: set_exp returns normally only if 30 <= exp_ms <= 2000 and the exposure read
\* back after the set command equals exp_ms; for exp_ms outside [30, 2000] it fails on
\* the range assertion with no command issued and nothing written to the device.
C17_SetExpChecked ==
    /\ chan.pce = "returned"
       => /\ EXP_MIN <= chan.exp_ms /\ chan.exp_ms <= EXP_MAX
          /\ chan.readback = chan.exp_ms
          /\ Len(chan.written) = 2
    /\ (chan.pce # "call" /\ (chan.exp_ms < EXP_MIN \/ chan.exp_ms > EXP_MAX))
       => /\ chan.pce = "raised"
          /\ chan.err = "AssertionError@523"
          /\ chan.calls = <<>>
          /\ chan.written = <<>>

C17_Witness ==
    /\ chan.pce = "raised"
    /\ chan.exp_ms = EXP_MIN - 1
    /\ chan.err = "AssertionError@523"
    /\ chan.written = <<>>

----------------------------------------------------------------------------
(* The session object *)

\* Exposures the session is constructed with and set to
HamExps == {0, EXP_MIN - 1, EXP_MIN, 250, 500, EXP_MAX, EXP_MAX + 1}

\* Exposure the device holds when the session opens it (250 ms on a DC5, 1000 ms on a
\* DC12)
DevDefaults == {250, 1000}

\* Calls of Hamamatsu.set_exp made on one session
MaxSets == 2

\* The device pegs an exposure above the accepted range at its upper end
dev_store(exp_ms) == IF exp_ms > EXP_MAX THEN EXP_MAX ELSE exp_ms

HamCmd(op, payload) == [k |-> "cmd", op |-> op, payload |-> payload, exp |-> 0]
HamSetExpSetup(exp) == [k |-> "set_exp_setup", op |-> OP_SET_EXP, payload |-> <<>>, exp |-> exp]
HamGetExp == [k |-> "get_exp", op |-> OP_GET_EXP, payload |-> <<>>, exp |-> 0]
\* trig_int: trig_n(dev, 1)
HamTrigInt == HamCmd(45, <<0, 1>>)
\* set_roi_wh for the 1032 x 1032 sensor
HamSetRoi == HamCmd(9, <<0, 1, 0, 0, 0, 0, 8, 4, 8, 4>>)

\* ham_init, lines 164-213: the commands it issues, in order.  exp_ms does not occur
\* in the body of ham_init.
ham_init_steps(exp_ms) ==
    << HamCmd(0, <<>>), HamCmd(1, <<>>), HamCmd(2, <<>>), HamCmd(36, <<>>),
       HamCmd(42, <<>>), HamCmd(57, <<>>), HamCmd(58, <<>>), HamCmd(59, <<>>),
       HamCmd(60, <<>>), HamCmd(61, <<>>), HamCmd(74, <<>>), HamCmd(79, <<>>),
       HamCmd(35, <<>>), HamCmd(41, <<>>),
       HamCmd(1, <<>>), HamCmd(1, <<>>), HamCmd(1, <<>>),
       HamSetRoi, HamCmd(4, <<>>),
       HamCmd(46, <<0, 0, 0, 2>>), HamCmd(46, <<0, 0, 0, 18>>), HamCmd(46, <<0, 0, 0, 24>>),
       HamCmd(33, <<0, 0, 0, 0>>), HamCmd(33, <<0, 0, 0, 1>>),
       HamCmd(33, <<0, 0, 0, 2>>), HamCmd(33, <<0, 0, 0, 3>>),
       HamSetExpSetup(2000), HamGetExp,
       HamSetExpSetup(250), HamGetExp,
       HamSetExpSetup(250), HamGetExp,
       HamTrigInt, HamGetExp,
       HamCmd(46, <<0, 0, 0, 18>>), HamCmd(46, <<0, 0, 0, 2>>),
       HamSetExpSetup(250), HamGetExp,
       HamTrigInt >>

\* Whether the set command of an exposure call reached the device
set_written(before, after) ==
    \E i \in (Len(before) + 1)..Len(after) :
        SubSeq(after[i].data, 1, 4) = be32(OP_SET_EXP)

\* One step of ham_init on io with the device holding dev; the device answers every
\* command with the reply ham_init expects
ham_step(io, dev, st) ==
    IF st.k = "cmd"
    THEN LET c == cmd1(io, st.op, st.payload, TRUE, <<>>)
         IN  [err |-> c.err, written |-> c.written, calls |-> c.calls, dev |-> dev]
    ELSE IF st.k = "get_exp"
    THEN LET g == get_exp(io, be32(dev))
         IN  [err |-> g.err, written |-> g.written, calls |-> g.calls, dev |-> dev]
    ELSE LET r == set_exp_setup(io, st.exp, REPLY_OK, be32(dev_store(st.exp)))
         IN  [err |-> r.err, written |-> r.written, calls |-> r.calls,
              dev |-> IF set_written(io.written, r.written) THEN dev_store(st.exp)
                      ELSE dev]

\* The steps in order, up to the first that raises: after[i] is the outcome of the
\* first i steps
ham_run(io, dev, steps) ==
    LET after[i \in 0..Len(steps)] ==
            IF i = 0
            THEN [err |-> "none", written |-> io.written, calls |-> io.calls, dev |-> dev]
            ELSE LET p == after[i - 1]
                 IN  IF p.err # "none" THEN p
                     ELSE ham_step([written |-> p.written, calls |-> p.calls], p.dev,
                                   steps[i])
    IN  after[Len(steps)]

\* ham_init(dev, exp_ms)
ham_init(io, dev, exp_ms) == ham_run(io, dev, ham_init_steps(exp_ms))

NoIo == [written |-> <<>>, calls |-> <<>>]

HamNew(E, init, d0) ==
    [pch |-> "new", E |-> E, init |-> init, exp_ms |-> -1, dev_exp |-> d0,
     op |-> "none", ms |-> -1, prev_exp |-> -1, err |-> "none",
     written |-> <<>>, calls |-> <<>>, nset |-> 0]

InitHam ==
    /\ CapIdle
    /\ dec = DecIdle
    /\ chan \in {HamNew(E, i, d0) : E \in HamExps, i \in BOOLEAN, d0 \in DevDefaults}

\* Hamamatsu.__init__: store exp_ms, then ham_init when init is set
HamConstruct ==
    /\ chan.pch = "new"
    /\ LET r == IF chan.init THEN ham_init(NoIo, chan.dev_exp, chan.E)
                ELSE [err |-> "none", written |-> <<>>, calls |-> <<>>,
                      dev |-> chan.dev_exp]
       IN  chan' = [chan EXCEPT
               !.pch = IF r.err # "none" THEN "failed" ELSE "ready",
               !.op = "__init__",
               !.exp_ms = chan.E,
               !.dev_exp = r.dev,
               !.err = r.err,
               !.written = r.written,
               !.calls = r.calls]
    /\ UNCHANGED <<capvars, dec>>

\* Hamamatsu.set_exp(ms): self.exp_ms = ms, then set_exp; an exception leaves the
\* session object in place
HamSetExp(ms) ==
    /\ chan.pch = "ready"
    /\ chan.nset < MaxSets
    /\ \E rep1 \in Replies :
          LET r == set_exp(NoIo, ms, rep1, be32(dev_store(ms)))
          IN  chan' = [chan EXCEPT
                  !.op = "set_exp",
                  !.ms = ms,
                  !.prev_exp = chan.exp_ms,
                  !.exp_ms = ms,
                  !.dev_exp = IF set_written(<<>>, r.written) THEN dev_store(ms)
                              ELSE chan.dev_exp,
                  !.err = r.err,
                  !.written = r.written,
                  !.calls = r.calls,
                  !.nset = chan.nset + 1]
    /\ UNCHANGED <<capvars, dec>>

HamSetExpAny == \E ms \in HamExps : HamSetExp(ms)

NextHam == HamConstruct \/ HamSetExpAny

SpecHam == InitHam /\ [][NextHam]_vars

\* C23: when Hamamatsu.set_exp(ms) fails, the session's exp_ms keeps the value it had
\* before the call.
C23_FailedSetKeepsExposure ==
    (chan.pch = "ready" /\ chan.op = "set_exp" /\ chan.err # "none")
    => chan.exp_ms = chan.prev_exp

====
